---- MODULE Spec2Model ----
(***************************************************************************)
(* ayejay::odds (odds.hpp): splitmix64 seeding, the xoshiro256** stream   *)
(* generator, the thread-local default streams, the unbiased bounded      *)
(* sampler uniform_bounded and the "1 in N" checks built on it.           *)
(*                                                                         *)
(* TLC's integers are 32 bits wide, so an unsigned machine word is a      *)
(* little-endian sequence of limbs.  A word format names the limb width   *)
(* (lb bits), the number of limbs of std::uint64_t (n) and the number of  *)
(* limbs of the sampler's result type UInt (un).  U64 is the program's    *)
(* format: 8 limbs of 8 bits, UInt = std::uint32_t.                       *)
(***************************************************************************)
EXTENDS Integers, Sequences, FiniteSets, TLC

------------------------------------------------------------------------------
(* Word arithmetic: what the C++ operators on unsigned integers compute.     *)

U64 == [lb |-> 8, n |-> 8, un |-> 4]

Base(f) == 2 ^ f.lb

Min(a, b) == IF a < b THEN a ELSE b
Max(a, b) == IF a > b THEN a ELSE b

RECURSIVE BitXor(_, _)
BitXor(a, b) ==
    IF a = 0 THEN b
    ELSE IF b = 0 THEN a
    ELSE ((a + b) % 2) + 2 * BitXor(a \div 2, b \div 2)

RECURSIVE BitAnd(_, _)
BitAnd(a, b) ==
    IF a = 0 \/ b = 0 THEN 0
    ELSE (a % 2) * (b % 2) + 2 * BitAnd(a \div 2, b \div 2)

RECURSIVE BitOr(_, _)
BitOr(a, b) ==
    IF a = 0 THEN b
    ELSE IF b = 0 THEN a
    ELSE Max(a % 2, b % 2) + 2 * BitOr(a \div 2, b \div 2)

\* limb i (1 = least significant) of the natural number v
RECURSIVE Digit(_, _, _)
Digit(f, v, i) == IF i = 1 THEN v % Base(f) ELSE Digit(f, v \div Base(f), i - 1)

\* a word is kept as an explicit tuple of its limbs
Pack(w) == w \o <<>>

\* static_cast<std::uint64_t>(v) for a small natural number v
ToWord(f, v) == Pack([i \in 1..f.n |-> Digit(f, v, i)])

\* the value of a word as a natural number (small words only)
RECURSIVE FromWord(_, _)
FromWord(f, a) ==
    IF a = <<>> THEN 0 ELSE a[1] + Base(f) * FromWord(f, Tail(a))

WZero(f) == Pack([i \in 1..f.n |-> 0])
WMax(f) == Pack([i \in 1..f.n |-> Base(f) - 1])

IsZero(a) == \A i \in 1..Len(a) : a[i] = 0

WXor(a, b) == Pack([i \in 1..Len(a) |-> BitXor(a[i], b[i])])
WAnd(a, b) == Pack([i \in 1..Len(a) |-> BitAnd(a[i], b[i])])
WOr(a, b) == Pack([i \in 1..Len(a) |-> BitOr(a[i], b[i])])
WNot(f, a) == Pack([i \in 1..Len(a) |-> Base(f) - 1 - a[i]])

RECURSIVE AddFrom(_, _, _, _, _)
AddFrom(f, a, b, i, c) ==
    IF i > Len(a) THEN <<>>
    ELSE LET t == a[i] + b[i] + c
         IN  <<t % Base(f)>> \o AddFrom(f, a, b, i + 1, t \div Base(f))

\* a + b and a - b with wraparound at the word width
WAdd(f, a, b) == AddFrom(f, a, b, 1, 0)
WSub(f, a, b) == AddFrom(f, a, WNot(f, b), 1, 1)

RECURSIVE ColSum(_, _, _, _)
ColSum(a, b, k, i) ==
    IF i > Min(Len(a), k) THEN 0
    ELSE a[i] * b[k + 1 - i] + ColSum(a, b, k, i + 1)

RECURSIVE MulFrom(_, _, _, _, _, _)
MulFrom(f, a, b, k, c, top) ==
    IF k > top THEN <<>>
    ELSE LET t == c + ColSum(a, b, k, Max(1, k + 1 - Len(b)))
         IN  <<t % Base(f)>> \o MulFrom(f, a, b, k + 1, t \div Base(f), top)

\* a * b at the word width (wraparound), and the full double-width product
WMul(f, a, b) == MulFrom(f, a, b, 1, 0, Len(a))
WMulWide(f, a, b) == MulFrom(f, a, b, 1, 0, Len(a) + Len(b))

Limb(a, i) == IF i >= 1 /\ i <= Len(a) THEN a[i] ELSE 0

\* a << k and a >> k, 0 <= k < width
WShl(f, a, k) ==
    LET q == k \div f.lb
        r == k % f.lb
    IN  Pack([i \in 1..Len(a) |->
            ((Limb(a, i - q) * 2 ^ r) % Base(f))
            + (Limb(a, i - q - 1) \div 2 ^ (f.lb - r))])

WShr(f, a, k) ==
    LET q == k \div f.lb
        r == k % f.lb
    IN  Pack([i \in 1..Len(a) |->
            (Limb(a, i + q) \div 2 ^ r)
            + ((Limb(a, i + q + 1) % 2 ^ r) * 2 ^ (f.lb - r))])

RECURSIVE LtFrom(_, _, _)
LtFrom(a, b, i) ==
    IF i = 0 THEN FALSE
    ELSE IF a[i] # b[i] THEN a[i] < b[i]
    ELSE LtFrom(a, b, i - 1)

\* a < b and a >= b as unsigned words
WLt(a, b) == LtFrom(a, b, Len(a))
WGeq(a, b) == ~WLt(a, b)

\* a % m for a small natural number m > 0
RECURSIVE ModFrom(_, _, _, _, _)
ModFrom(f, a, m, i, r) ==
    IF i = 0 THEN r ELSE ModFrom(f, a, m, i - 1, (r * Base(f) + a[i]) % m)

WModSmall(f, a, m) == ModFrom(f, a, m, Len(a), 0)

\* a / m for a small natural number m > 0
RECURSIVE DivFrom(_, _, _, _, _)
DivFrom(f, a, m, i, r) ==
    IF i = 0 THEN <<>>
    ELSE LET cur == r * Base(f) + a[i]
         IN  DivFrom(f, a, m, i - 1, cur % m) \o <<cur \div m>>

WDivSmall(f, a, m) == DivFrom(f, a, m, Len(a), 0)

\* a 64-bit constant from its four 16-bit groups, most significant first
W64(h3, h2, h1, h0) ==
    <<h0 % 256, h0 \div 256, h1 % 256, h1 \div 256,
      h2 % 256, h2 \div 256, h3 % 256, h3 \div 256>>

------------------------------------------------------------------------------
(* odds.hpp: rotl64, splitmix64, xoshiro256ss                                *)

rotl64(x, k) == WOr(WShl(U64, x, k), WShr(U64, x, 64 - k))

GOLDEN == W64(\H9E37, \H79B9, \H7F4A, \H7C15)
MIX1 == W64(\HBF58, \H476D, \H1CE4, \HE5B9)
MIX2 == W64(\H94D0, \H49BB, \H1331, \H11EB)

\* splitmix64::next_u64 on the mixer state st: the new state and the output
splitmix64_next(st) ==
    LET z0 == WAdd(U64, st, GOLDEN)
        z1 == WMul(U64, WXor(z0, WShr(U64, z0, 30)), MIX1)
        z2 == WMul(U64, WXor(z1, WShr(U64, z1, 27)), MIX2)
    IN  [state |-> z0, out |-> WXor(z2, WShr(U64, z2, 31))]

\* a value-initialised state array
zero_state == <<WZero(U64), WZero(U64), WZero(U64), WZero(U64)>>

default_state ==
    << W64(\H1234, \H5678, \H9ABC, \HDEF0),
       W64(\HCAFE, \HBABE, \HDEAD, \HC0DE),
       W64(\H0F1E, \H2D3C, \H4B5A, \H6978),
       W64(\H1122, \H3344, \H5566, \H7788) >>

fallback_state ==
    << GOLDEN, MIX1, MIX2, W64(\HD1B5, \H4A32, \HD192, \HED03) >>

\* seed_with that mixes the seed into the state it finds
seed_with_residual(s, seed) ==
    LET m1 == splitmix64_next(seed)
        m2 == splitmix64_next(m1.state)
        m3 == splitmix64_next(m2.state)
        m4 == splitmix64_next(m3.state)
    IN  <<WXor(s[1], m1.out), WXor(s[2], m2.out), WXor(s[3], m3.out), WXor(s[4], m4.out)>>

\* xoshiro256ss::seed_with(seed) on an object whose state is s: the state it leaves
seed_with(s, seed) ==
    LET m1 == splitmix64_next(seed)
        m2 == splitmix64_next(m1.state)
        m3 == splitmix64_next(m2.state)
        m4 == splitmix64_next(m3.state)
        w == <<m1.out, m2.out, m3.out, m4.out>>
    IN  IF IsZero(WOr(WOr(w[1], w[2]), WOr(w[3], w[4])))
        THEN fallback_state
        ELSE w

\* xoshiro256ss::next_u64 on state s: the new state and the result
next_u64(s) ==
    LET result == WMul(U64, rotl64(WMul(U64, s[2], ToWord(U64, 5)), 7), ToWord(U64, 9))
        t == WShl(U64, s[2], 17)
        a2 == WXor(s[3], s[1])
        a3 == WXor(s[4], s[2])
        a1 == WXor(s[2], a2)
        a0 == WXor(s[1], a3)
    IN  [s |-> <<a0, a1, WXor(a2, t), rotl64(a3, 45)>>, result |-> result]

\* xoshiro256ss::next_u32: the upper half of one next_u64 draw
next_u32(s) ==
    LET d == next_u64(s)
    IN  [s |-> d.s, result |-> SubSeq(WShr(U64, d.result, 32), 1, U64.un)]

\* detail::entropy_seed from the three 64-bit values a, b, c it builds out of
\* its six std::random_device pulls
entropy_seed(a, b, c) ==
    WXor(WXor(a, rotl64(b, 21)),
         WXor(rotl64(c, 43), W64(\HD6E8, \HFEB8, \H6659, \HFD93)))

------------------------------------------------------------------------------
(* The Rng a sampler call draws from.  uniform_bounded and one_in are        *)
(* templates over class Rng: any object with next_u64().  Two are modelled:  *)
(* a xoshiro256ss, and a scripted source that replays a tape of words.       *)

Xo(s) == [kind |-> "xoshiro256ss", s |-> s]
Script(tape, pos) == [kind |-> "script", tape |-> tape, pos |-> pos]

\* rng.next_u64(): the Rng afterwards and the word x it returned
rng_next(rng) ==
    IF rng.kind = "xoshiro256ss"
    THEN LET d == next_u64(rng.s) IN [rng |-> Xo(d.s), x |-> d.result]
    ELSE [rng |-> Script(rng.tape, (rng.pos % Len(rng.tape)) + 1),
          x |-> rng.tape[rng.pos]]

------------------------------------------------------------------------------
(* odds.hpp: uniform_bounded, one_in, one_in_t                               *)

\* the builds of the rejection loop: "wide" is the __int128 / _umul128 branch,
\* "portable" the #else branch
Builds == {"wide", "portable"}

\* static_cast<UInt>(w)
Cast(f, w) == SubSeq(w, 1, f.un)

\* (bound & (bound - 1)) == 0
is_pow2(f, bound) ==
    LET b == ToWord(f, bound)
    IN  IsZero(WAnd(b, WSub(f, b, ToWord(f, 1))))

\* threshold = (std::uint64_t{0} - b) % b
threshold(f, bound) ==
    ToWord(f, WModSmall(f, WSub(f, WZero(f), ToWord(f, bound)), bound))

\* the mul-high branch without its rejection test
wide_accepts_always(f, x, bound) == TRUE

\* the mul-high branch with l > threshold
wide_accepts_strict(f, x, bound) ==
    LET m == WMulWide(f, x, ToWord(f, bound))
    IN  WLt(threshold(f, bound), SubSeq(m, 1, f.n))

\* the mul-high branch on the draw x: l >= threshold, and m >> 64
wide_accepts(f, x, bound) ==
    LET m == WMulWide(f, x, ToWord(f, bound))
    IN  WGeq(SubSeq(m, 1, f.n), threshold(f, bound))

wide_value(f, x, bound) ==
    LET m == WMulWide(f, x, ToWord(f, bound))
    IN  Cast(f, SubSeq(m, f.n + 1, 2 * f.n))

\* the portable branch: limit = (max / b) * b, x < limit, and x % b
portable_limit(f, bound) ==
    WMul(f, WDivSmall(f, WMax(f), bound), ToWord(f, bound))

\* the portable branch with x <= limit
portable_accepts_le(f, x, bound) == ~WLt(portable_limit(f, bound), x)

portable_accepts(f, x, bound) == WLt(x, portable_limit(f, bound))

portable_value(f, x, bound) == Cast(f, ToWord(f, WModSmall(f, x, bound)))

\* one pass of the for (;;) body on the draw x
loop_body(f, build, x, bound) ==
    IF build = "wide"
    THEN [accept |-> wide_accepts(f, x, bound), ret |-> wide_value(f, x, bound)]
    ELSE [accept |-> portable_accepts(f, x, bound), ret |-> portable_value(f, x, bound)]

\* the for (;;) loop: draws until a draw is accepted
RECURSIVE rejection_loop(_, _, _, _, _)
rejection_loop(f, build, rng, bound, drawn) ==
    LET d == rng_next(rng)
        o == loop_body(f, build, d.x, bound)
    IN  IF o.accept
        THEN [rng |-> d.rng, ret |-> o.ret, draws |-> Append(drawn, d.x)]
        ELSE rejection_loop(f, build, d.rng, bound, Append(drawn, d.x))

\* uniform_bounded without its bound == 0 test
uniform_bounded_nozero(f, build, rng, bound) ==
    IF is_pow2(f, bound)
    THEN LET d == rng_next(rng)
         IN  [rng |-> d.rng,
              ret |-> Cast(f, WAnd(d.x, WSub(f, ToWord(f, bound), ToWord(f, 1)))),
              draws |-> <<d.x>>]
    ELSE rejection_loop(f, build, rng, bound, <<>>)

\* uniform_bounded(rng, bound): the Rng afterwards, the value returned and
\* the words drawn, in order
uniform_bounded(f, build, rng, bound) ==
    IF bound = 0
    THEN [rng |-> rng, ret |-> Cast(f, WZero(f)), draws |-> <<>>]
    ELSE IF is_pow2(f, bound)
    THEN LET d == rng_next(rng)
         IN  [rng |-> d.rng,
              ret |-> Cast(f, WAnd(d.x, WSub(f, ToWord(f, bound), ToWord(f, 1)))),
              draws |-> <<d.x>>]
    ELSE rejection_loop(f, build, rng, bound, <<>>)

\* one_in by a naive remainder of one draw
one_in_modulo(f, build, rng, bound) ==
    IF bound <= 1
    THEN [rng |-> rng, ret |-> TRUE, draws |-> <<>>]
    ELSE LET d == rng_next(rng)
         IN  [rng |-> d.rng, ret |-> WModSmall(f, d.x, bound) = 0, draws |-> <<d.x>>]

\* one_in with bound == 0 as its only certain case
one_in_zero_only(f, build, rng, bound) ==
    IF bound = 0
    THEN [rng |-> rng, ret |-> TRUE, draws |-> <<>>]
    ELSE LET u == uniform_bounded(f, build, rng, bound)
         IN  [rng |-> u.rng, ret |-> IsZero(u.ret), draws |-> u.draws]

\* one_in(rng, bound)
one_in(f, build, rng, bound) ==
    IF bound <= 1
    THEN [rng |-> rng, ret |-> TRUE, draws |-> <<>>]
    ELSE LET u == uniform_bounded(f, build, rng, bound)
         IN  [rng |-> u.rng, ret |-> IsZero(u.ret), draws |-> u.draws]

\* one_in_t<N> without its N == 1 case
one_in_t_nocase(f, build, rng, N) ==
    LET u == uniform_bounded(f, build, rng, N)
    IN  [rng |-> u.rng, ret |-> IsZero(u.ret), draws |-> u.draws]

\* one_in_t<N>::operator()(rng), N >= 1 (static_assert)
one_in_t(f, build, rng, N) ==
    IF N = 1
    THEN [rng |-> rng, ret |-> TRUE, draws |-> <<>>]
    ELSE LET u == uniform_bounded(f, build, rng, N)
         IN  [rng |-> u.rng, ret |-> IsZero(u.ret), draws |-> u.draws]

\* the presets p2 .. p256
Catalog == {2, 3, 4, 5, 6, 8, 10, 12, 16, 20, 25, 30, 50, 60, 100, 128, 256}

\* the named wrappers one_in_2() .. one_in_100()
Named == {2, 5, 10, 25, 50, 100}

------------------------------------------------------------------------------
(* The program: streams, and the calls made on them.                         *)

\* bounds of the model
MaxDraws == 3
TapeLen == 3
MaxBound == 7

\* inputs of the model
Threads == {"t1", "t2"}
Seeds == {WZero(U64), ToWord(U64, 1337)}
RdWords == {WZero(U64), WMax(U64)}
Bounds == {0, 1, 2, 3, 37, 100}
LoopBounds == {0, 1, 3, 4, 6, 100}
ScriptWords ==
    { WZero(U64), ToWord(U64, 1), WMax(U64),
      W64(\HAAAA, \HAAAA, \HAAAA, \HAAAB),
      W64(\H2AAA, \HAAAA, \HAAAA, \HAAAB) }

\* the bounds counted: every bound up to MaxBound with every value up to the
\* bound itself, and the bounds of examples/main.cpp with their end values
CountCases ==
    { c \in (1..MaxBound) \X (0..MaxBound) : c[2] <= c[1] }
        \cup { <<37, 0>>, <<37, 36>>, <<100, 0>>, <<100, 99>>, <<100, 100>> }

\* a position among the 2^64 raw words, or a number of them: a natural number
\* up to 2^64, one limb longer than a word
Pos == [lb |-> 8, n |-> 9, un |-> 9]
AllWords == WShl(Pos, ToWord(Pos, 1), 64)
PosOf(x) == x \o <<0>>
WordAt(p) == SubSeq(p, 1, U64.n)
Mid(lo, hi) == WShr(Pos, WAdd(Pos, lo, hi), 1)

VARIABLES
    streams,    \* handle -> Rng: the threads' detail::tl_rng, and local objects
    build,      \* which branch of the rejection loop the build compiled
    last,       \* the call that just returned: op, handle, bound or N, seed, result
                \* (val: a word, ok: a boolean), words drawn, streams before it
    hist,       \* handle -> seed of the last re-seed, state it left, words drawn since
    cb,         \* count: the bound
    cv,         \* count: the value whose raw words are counted
    cs,         \* count: the search for an end of those words (phase, lo, hi)
    cnt         \* count: build -> number of raw words accepted and mapped to cv

vars == <<streams, build, last, hist, cb, cv, cs, cnt>>
countVars == <<cb, cv, cs, cnt>>

Handles == DOMAIN streams
NoSeed == <<>>
NoWord == <<>>
NoCall == [op |-> "none", h |-> "none", arg |-> 0, seed |-> NoSeed,
           val |-> NoWord, ok |-> FALSE, draws |-> <<>>, pre |-> <<>>]

\* thread_rng() on thread t: the handle of its detail::tl_rng
thread_rng(t) == t

\* detail::tl_rng{ entropy_seed() }: the seed constructor
tl_rng_init(a, b, c) == Xo(seed_with(default_state, entropy_seed(a, b, c)))

\* seed_thread with detail::tl_rng shared by the threads
seed_thread_shared(strs, t, seed) ==
    [h \in DOMAIN strs |->
        IF h \in Threads THEN Xo(seed_with(strs[h].s, seed)) ELSE strs[h]]

\* seed_thread(seed) on thread t: detail::tl_rng.seed_with(seed)
seed_thread(strs, t, seed) ==
    [strs EXCEPT ![thread_rng(t)] = Xo(seed_with(@.s, seed))]

Fresh(rng, seed) == [seed |-> seed, base |-> rng.s, outs |-> <<>>]

InitThreads ==
    /\ \E e \in [Threads -> RdWords] :
          streams = [t \in Threads |-> tl_rng_init(e[t], WZero(U64), WZero(U64))]
    /\ build \in Builds
    /\ last = NoCall
    /\ hist = [h \in DOMAIN streams |-> Fresh(streams[h], NoSeed)]
    /\ cb = 0 /\ cv = 0 /\ cs = <<>> /\ cnt = <<>>

\* one thread's default stream and a default-constructed local xoshiro256ss
InitLocal ==
    /\ \E a \in RdWords :
          streams = [h \in {"t1", "rng"} |->
                        IF h = "t1" THEN tl_rng_init(a, WZero(U64), WZero(U64))
                        ELSE Xo(default_state)]
    /\ build \in Builds
    /\ last = NoCall
    /\ hist = [h \in DOMAIN streams |-> Fresh(streams[h], NoSeed)]
    /\ cb = 0 /\ cv = 0 /\ cs = <<>> /\ cnt = <<>>

\* a scripted Rng replaying a tape of words
InitLoop ==
    /\ \E tape \in [1..TapeLen -> ScriptWords] :
          streams = [h \in {"script"} |-> Script(tape, 1)]
    /\ build \in Builds
    /\ last = NoCall
    /\ hist = [h \in DOMAIN streams |-> [seed |-> NoSeed, base |-> <<>>, outs |-> <<>>]]
    /\ cb = 0 /\ cv = 0 /\ cs = <<>> /\ cnt = <<>>

IsXo(h) == streams[h].kind = "xoshiro256ss"

\* the model stops drawing from a stream MaxDraws words after its last re-seed
MayDraw(h) == IsXo(h) => Len(hist[h].outs) < MaxDraws

\* the call returns: some word the Rng delivers is accepted
Returns(rng, bound) ==
    IF rng.kind = "xoshiro256ss" \/ bound = 0 THEN TRUE
    ELSE IF is_pow2(U64, bound) THEN TRUE
    ELSE \E i \in 1..Len(rng.tape) : loop_body(U64, build, rng.tape[i], bound).accept

Drew(h, draws) ==
    hist' = [hist EXCEPT ![h].outs = IF IsXo(h) THEN @ \o draws ELSE @]

\* the caller is between two calls
Idle == last.op = "none"

\* a call on handle h returned, leaving the Rng rng behind
Called(op, h, arg, rng, val, ok, draws) ==
    /\ Idle
    /\ (draws # <<>>) => MayDraw(h)
    /\ streams' = [streams EXCEPT ![h] = rng]
    /\ last' = [op |-> op, h |-> h, arg |-> arg, seed |-> NoSeed,
                val |-> val, ok |-> ok, draws |-> draws, pre |-> streams]
    /\ Drew(h, draws)
    /\ UNCHANGED <<build, countVars>>

\* a call r = [rng, ret, draws] that returns a word, and one that returns a bool
Sampled(op, h, arg, r) == Called(op, h, arg, r.rng, r.ret, FALSE, r.draws)
Decided(op, h, arg, r) == Called(op, h, arg, r.rng, NoWord, r.ret, r.draws)

SeedThread(t, seed) ==
    /\ Idle
    /\ thread_rng(t) \in Handles
    /\ streams' = seed_thread(streams, t, seed)
    /\ last' = [NoCall EXCEPT !.op = "seed_thread", !.h = thread_rng(t),
                              !.seed = seed, !.pre = streams]
    /\ hist' = [hist EXCEPT ![thread_rng(t)] = Fresh(streams'[thread_rng(t)], seed)]
    /\ UNCHANGED <<build, countVars>>

SeedWith(h, seed) ==
    /\ Idle
    /\ IsXo(h)
    /\ streams' = [streams EXCEPT ![h] = Xo(seed_with(@.s, seed))]
    /\ last' = [NoCall EXCEPT !.op = "seed_with", !.h = h, !.seed = seed, !.pre = streams]
    /\ hist' = [hist EXCEPT ![h] = Fresh(streams'[h], seed)]
    /\ UNCHANGED <<build, countVars>>

NextU64(h) ==
    /\ IsXo(h)
    /\ LET d == next_u64(streams[h].s)
       IN  Sampled("next_u64", h, 0, [rng |-> Xo(d.s), ret |-> d.result, draws |-> <<d.result>>])

NextU32(h) ==
    /\ IsXo(h)
    /\ LET d == next_u32(streams[h].s)
           x == next_u64(streams[h].s).result
       IN  Sampled("next_u32", h, 0, [rng |-> Xo(d.s), ret |-> d.result, draws |-> <<x>>])

UniformBounded(h, bound) ==
    /\ Idle
    /\ Returns(streams[h], bound)
    /\ Sampled("uniform_bounded", h, bound, uniform_bounded(U64, build, streams[h], bound))

OneIn(h, bound) ==
    /\ Idle
    /\ Returns(streams[h], bound)
    /\ Decided("one_in", h, bound, one_in(U64, build, streams[h], bound))

\* one_in(bound): on the calling thread's default stream
OneInDefault(t, bound) ==
    /\ thread_rng(t) \in Handles
    /\ Decided("one_in_default", thread_rng(t), bound,
               one_in(U64, build, streams[thread_rng(t)], bound))

OneInT(h, N) ==
    /\ IsXo(h)
    /\ Decided("one_in_t", h, N, one_in_t(U64, build, streams[h], N))

\* pN(): one_in_t<N>::operator()() on the calling thread's default stream
Preset(t, N) ==
    /\ thread_rng(t) \in Handles
    /\ Decided("preset", thread_rng(t), N, one_in_t(U64, build, streams[thread_rng(t)], N))

\* one_in_N(): returns pN()
NamedPreset(t, N) ==
    /\ thread_rng(t) \in Handles
    /\ Decided("named", thread_rng(t), N, one_in_t(U64, build, streams[thread_rng(t)], N))

\* the caller takes the result of the call that returned and goes on
Resume ==
    /\ ~Idle
    /\ last' = NoCall
    /\ UNCHANGED <<streams, build, hist, countVars>>

\* an Rng that delivers the raw word x, the word after it, and then the word
\* 1, which every branch of the loop accepts
RunFrom(x) == Script(<<x, WAdd(U64, x, ToWord(U64, 1)), ToWord(U64, 1)>>, 1)

\* how the raw words mapped to one value lie among all raw words: the mul-high
\* branch returns the high product word, which grows with x, so they are one
\* run of consecutive words; the mask of the power-of-two path and the
\* remainder of the portable branch map every bound-th word to the value
Shape(bl, bound) ==
    IF bl = "wide" /\ ~is_pow2(U64, bound) THEN "run" ELSE "stride"

StartOf(bl, bound) ==
    [phase |-> IF Shape(bl, bound) = "run" THEN "from" ELSE "stride",
     lo |-> WZero(Pos), hi |-> AllWords, first |-> WZero(Pos)]

\* the count of the raw words that uniform_bounded(rng, cb) accepts and maps
\* to cv, on each build in turn
InitCount ==
    /\ \E c \in CountCases : cb = c[1] /\ cv = c[2]
    /\ build = "wide"
    /\ cs = StartOf("wide", cb)
    /\ cnt = [bl \in Builds |-> NoWord]
    /\ streams = [h \in {"probe"} |-> RunFrom(WZero(U64))]
    /\ last = NoCall
    /\ hist = <<>>

\* the k-th raw word (k = 0, 1, ...) that a mask or a remainder maps to cv
Member(k) == WAdd(Pos, WMul(Pos, k, ToWord(Pos, cb)), ToWord(Pos, cv))

\* the call r on RunFrom(x) shows that x lies at or after the end searched for:
\*   from:   the first word from which the call returns cv or more
\*   took:   the first word, from there on, that is accepted itself
\*   upto:   the first word from which the call returns more than cv
\*   stride: the first k whose word is not accepted or not mapped to cv
Past(phase, r) ==
    LET took == Len(r.draws) = 1
        val == FromWord(U64, r.ret)
    IN  IF phase = "from" THEN val >= cv
        ELSE IF phase = "took" THEN val > cv \/ took
        ELSE IF phase = "upto" THEN val > cv
        ELSE ~(took /\ val = cv)

\* one step of the search: uniform_bounded(rng, cb) on the Rng that starts at
\* the middle word; a position past the last raw word is past every end
Probe ==
    /\ cs.phase # "done"
    /\ WLt(cs.lo, cs.hi)
    /\ LET mid == Mid(cs.lo, cs.hi)
           p == IF cs.phase = "stride" THEN Member(mid) ELSE mid
           exists == p[Pos.n] = 0
           rng == RunFrom(WordAt(p))
           r == uniform_bounded(U64, build, rng, cb)
           past == IF exists THEN Past(cs.phase, r) ELSE TRUE
       IN  /\ cs' = IF past THEN [cs EXCEPT !.hi = mid]
                    ELSE [cs EXCEPT !.lo = WAdd(Pos, mid, ToWord(Pos, 1))]
           /\ streams' = IF exists THEN [h \in {"probe"} |-> r.rng] ELSE streams
           /\ last' = IF exists
                      THEN [op |-> "uniform_bounded", h |-> "probe", arg |-> cb,
                            seed |-> NoSeed, val |-> r.ret, ok |-> FALSE,
                            draws |-> r.draws, pre |-> [h \in {"probe"} |-> rng]]
                      ELSE NoCall
    /\ UNCHANGED <<build, hist, cb, cv, cnt>>

\* an end is found: go on to the next end, or note the count for this build
\* and go on to the next build
Settle ==
    /\ cs.phase # "done"
    /\ cs.lo = cs.hi
    /\ IF cs.phase = "from"
       THEN /\ cs' = [phase |-> "took", lo |-> cs.lo, hi |-> AllWords, first |-> cs.first]
            /\ UNCHANGED <<build, cnt>>
       ELSE IF cs.phase = "took"
       THEN /\ cs' = [phase |-> "upto", lo |-> cs.lo, hi |-> AllWords, first |-> cs.lo]
            /\ UNCHANGED <<build, cnt>>
       ELSE /\ cnt' = [cnt EXCEPT ![build] =
                         IF cs.phase = "upto" THEN WSub(Pos, cs.lo, cs.first) ELSE cs.lo]
            /\ IF build = "wide"
               THEN build' = "portable" /\ cs' = StartOf("portable", cb)
               ELSE build' = build /\ cs' = [cs EXCEPT !.phase = "done"]
    /\ UNCHANGED <<streams, last, hist, cb, cv>>

NextCount == Probe \/ Settle

Next ==
    \/ Resume
    \/ \E t \in Threads, seed \in Seeds : SeedThread(t, seed)
    \/ \E h \in Handles, seed \in Seeds : SeedWith(h, seed)
    \/ \E h \in Handles : NextU64(h)
    \/ \E h \in Handles : NextU32(h)
    \/ \E h \in Handles, bound \in Bounds : UniformBounded(h, bound)
    \/ \E h \in Handles, bound \in Bounds : OneIn(h, bound)

NextOdds ==
    \/ Resume
    \/ \E h \in Handles, seed \in Seeds : SeedWith(h, seed)
    \/ \E t \in Threads, bound \in Bounds : OneInDefault(t, bound)
    \/ \E h \in Handles, N \in Catalog \cup {1} : OneInT(h, N)
    \/ \E t \in Threads, N \in Catalog : Preset(t, N)
    \/ \E t \in Threads, N \in Named : NamedPreset(t, N)

NextLoop ==
    \/ Resume
    \/ \E h \in Handles, bound \in LoopBounds : UniformBounded(h, bound)

\* streams of two threads
Spec == InitThreads /\ [][Next]_vars
\* a thread's stream and a default-constructed local stream
SpecLocal == InitLocal /\ [][Next]_vars
\* the fixed-bound checks
SpecOdds == InitLocal /\ [][NextOdds]_vars
\* the sampler on a scripted Rng
SpecLoop == InitLoop /\ [][NextLoop]_vars
\* the count of the raw words mapped to a value
SpecCount == InitCount /\ [][NextCount]_vars

------------------------------------------------------------------------------
(* Properties                                                                *)

IsPowerOfTwo(n) == \E k \in 0..30 : n = 2 ^ k

\* 2^k mod m
RECURSIVE Pow2Mod(_, _)
Pow2Mod(k, m) == IF k = 0 THEN 1 % m ELSE (2 * Pow2Mod(k - 1, m)) % m

\* the first n words a stream in state s returns when nothing else touches it
RECURSIVE Solo(_, _)
Solo(s, n) ==
    IF n = 0 THEN <<>>
    ELSE LET d == next_u64(s) IN <<d.result>> \o Solo(d.s, n - 1)

AllZero(s) == \A i \in 1..4 : IsZero(s[i])

CountDone == cs.phase = "done"

\* floor(2^64 / cb)
PerValue == WDivSmall(Pos, AllWords, cb)

\* C1: uniform_bounded is exactly unbiased.  No call returns a value outside
\* [0, bound), so no raw word is accepted and mapped outside it, and every
\* value of [0, bound) is the image of the same number of accepted raw
\* 64-bit words: floor(2^64 / bound) on the wide-multiply rejection path,
\* which is 2^64 / bound exactly when bound is a power of two.
C1_Unbiased ==
    /\ last.op = "uniform_bounded" => FromWord(U64, last.val) < cb
    /\ cnt["wide"] # NoWord =>
         /\ cv < cb => cnt["wide"] = PerValue
         /\ cv = cb => IsZero(cnt["wide"])
         /\ (cv < cb /\ IsPowerOfTwo(cb)) =>
               WMul(Pos, cnt["wide"], ToWord(Pos, cb)) = AllWords

C1_Witness ==
    /\ CountDone
    /\ cb = 7
    /\ cv = 6
    /\ cnt["wide"] = PerValue
    /\ WLt(WMul(Pos, cnt["wide"], ToWord(Pos, 7)), AllWords)

\* C2: two streams re-seeded with the same seed return the same words from
\* then on, whatever each did before: the state a re-seed leaves depends on
\* the seed alone, and the words drawn since agree as far as both have drawn.
C2_Determinism ==
    \A a \in Handles, b \in Handles :
        (hist[a].seed # NoSeed /\ hist[a].seed = hist[b].seed) =>
            LET n == Min(Len(hist[a].outs), Len(hist[b].outs))
            IN  /\ hist[a].base = hist[b].base
                /\ SubSeq(hist[a].outs, 1, n) = SubSeq(hist[b].outs, 1, n)
                /\ Len(hist[a].outs) = Len(hist[b].outs) => streams[a] = streams[b]

C2_Witness ==
    /\ hist["t1"].seed # NoSeed
    /\ hist["t1"].seed = hist["t2"].seed
    /\ Len(hist["t1"].outs) >= 2
    /\ Len(hist["t2"].outs) >= 2

\* C3: streams are isolated.  A call on one stream leaves every other stream's
\* state words unchanged, and so the words a stream has returned since its
\* last re-seed are those it returns when no other stream is touched at all.
C3_Isolation ==
    /\ ~Idle => \A h \in Handles : h # last.h => streams[h] = last.pre[h]
    /\ \A h \in Handles : hist[h].outs = Solo(hist[h].base, Len(hist[h].outs))

C3_Witness ==
    /\ last.h = "t2"
    /\ last.draws # <<>>
    /\ hist["t2"].seed # NoSeed
    /\ hist["t1"].seed # hist["t2"].seed
    /\ Len(hist["t1"].outs) >= 2
    /\ streams["t1"] # streams["t2"]

\* C4: one_in(rng, bound) with bound 0 or 1 returns true and draws nothing:
\* the stream's state is unchanged, and so is the word it returns next.
C4_CertainNoDraw ==
    (last.op = "one_in" /\ last.arg <= 1) =>
        /\ last.ok = TRUE
        /\ last.draws = <<>>
        /\ streams = last.pre
        /\ next_u64(streams[last.h].s).result = next_u64(last.pre[last.h].s).result

C4_Witness ==
    /\ last.op = "one_in"
    /\ last.arg = 1
    /\ last.ok = TRUE
    /\ Len(hist[last.h].outs) >= 1

\* C5: for bound >= 2, one_in(rng, bound) is true exactly when
\* uniform_bounded(rng, bound) from the same state returns 0, and it leaves
\* the stream where that call leaves it, having drawn the same words.
C5_OneInIsZero ==
    (last.op = "one_in" /\ last.arg >= 2) =>
        LET u == uniform_bounded(U64, build, last.pre[last.h], last.arg)
        IN  /\ last.ok = (u.ret = <<0, 0, 0, 0>>)
            /\ streams[last.h] = u.rng
            /\ last.draws = u.draws

C5_Witness ==
    /\ last.op = "one_in"
    /\ last.arg = 3
    /\ last.ok = TRUE
    /\ Len(last.draws) >= 1

\* C6: no stream's state is ever all-zero.
C6_NeverAllZero == \A h \in Handles : ~AllZero(streams[h].s)

C6_Witness ==
    /\ hist["rng"].seed = WZero(U64)
    /\ Len(hist["rng"].outs) >= 2
    /\ hist["t1"].seed = NoSeed
    /\ Len(hist["t1"].outs) >= 1

\* C7: uniform_bounded(rng, 0) returns 0, draws nothing and leaves the
\* stream's state unchanged.
C7_ZeroBound ==
    (last.op = "uniform_bounded" /\ last.arg = 0) =>
        /\ last.val = <<0, 0, 0, 0>>
        /\ last.draws = <<>>
        /\ streams = last.pre

C7_Witness ==
    /\ last.op = "uniform_bounded"
    /\ last.arg = 0
    /\ Len(hist[last.h].outs) >= 1

\* C8: one_in_t<N>{}(rng), and pN() / one_in_N() on the calling thread's
\* default stream, return what the runtime one_in(rng, N) returns from the
\* same state and leave the stream where it leaves it.
C8_FixedIsRuntime ==
    (last.op \in {"one_in_t", "preset", "named"}) =>
        LET o == one_in(U64, build, last.pre[last.h], last.arg)
        IN  /\ last.ok = o.ret
            /\ streams[last.h] = o.rng
            /\ last.draws = o.draws
            /\ last.op # "one_in_t" => last.h \in Threads

C8_Witness ==
    /\ last.op = "preset"
    /\ last.arg = 100
    /\ Len(last.draws) = 1
    /\ Len(hist[last.h].outs) >= 2

\* C9: on the wide-multiply path, for a bound that is neither 0 nor a power
\* of two, uniform_bounded takes the Rng's words in order, rejects each word
\* whose low product word is below t = 2^64 mod bound, stops at the first
\* whose low product word is >= t, returns the high product word of that one
\* and draws nothing after it; threshold is computed as that t.
C9_RejectionLoop ==
    (last.op = "uniform_bounded" /\ build = "wide"
        /\ last.arg # 0 /\ ~IsPowerOfTwo(last.arg)) =>
        LET r == last.pre[last.h]
            b == ToWord(U64, last.arg)
            t == ToWord(U64, Pow2Mod(64, last.arg))
            d == last.draws
            k == Len(d)
            low(x) == SubSeq(WMulWide(U64, x, b), 1, 8)
            high(x) == SubSeq(WMulWide(U64, x, b), 9, 12)
        IN  /\ threshold(U64, last.arg) = t
            /\ k >= 1
            /\ \A i \in 1..k : d[i] = r.tape[((r.pos + i - 2) % Len(r.tape)) + 1]
            /\ \A i \in 1..(k - 1) : WLt(low(d[i]), t)
            /\ WGeq(low(d[k]), t)
            /\ last.val = high(d[k])
            /\ streams[last.h] = Script(r.tape, ((r.pos + k - 1) % Len(r.tape)) + 1)

C9_Witness ==
    /\ last.op = "uniform_bounded"
    /\ build = "wide"
    /\ last.arg = 6
    /\ Len(last.draws) = 3
    /\ last.draws[2] = W64(\H2AAA, \HAAAA, \HAAAA, \HAAAB)

\* C10: the portable path accepts, for a bound that is neither 0 nor a power
\* of two, exactly floor(2^64 / bound) raw 64-bit words for each value of
\* [0, bound), the count of the wide-multiply path, and none for the value
\* bound; its acceptance limit is floor(2^64 / bound) * bound.
C10_PortableSameCounts ==
    ~IsPowerOfTwo(cb) =>
        /\ PosOf(portable_limit(U64, cb)) = WMul(Pos, PerValue, ToWord(Pos, cb))
        /\ (build = "portable" /\ last.op = "uniform_bounded") =>
              FromWord(U64, last.val) < cb
        /\ CountDone =>
              /\ cv < cb => cnt["portable"] = PerValue /\ cnt["portable"] = cnt["wide"]
              /\ cv = cb => IsZero(cnt["portable"])

C10_Witness ==
    /\ CountDone
    /\ cb = 6
    /\ cv = 5
    /\ cnt["portable"] = PerValue
    /\ cnt["wide"] = cnt["portable"]
====
